---- MODULE Spec2Model ----
(***************************************************************************)
(* Sentiment / price pattern detection of the Reddit trading bot           *)
(* (src/pattern_analyzer.py) over the document store (src/database.py).    *)
(*                                                                         *)
(* Units.  A sentiment score is an integer number of tenths (10 = 1.0), a  *)
(* closing price an integer, a datetime an integer number of half days     *)
(* (2*d is day d at the daily stamp of the price series, 2*d+1 is later on *)
(* day d).  Means, percentages and variances are exact fractions           *)
(* [num, den] in lowest terms; floating point rounding is not modelled.    *)
(* Optional[x] is <<>> for None and <<x>> for a value.                     *)
(***************************************************************************)
EXTENDS Integers, Sequences, FiniteSets, TLC

VARIABLES
    sentiment_analysis,  \* db.collections['sentiment_analysis'], insertion order
    stock_prices,        \* db.collections['stock_prices'], insertion order
    pattern_config,      \* config section 'pattern_analysis'
    pc,                  \* position of the running call
    window_days,         \* local of _analyze_sentiment_price_patterns
    price_df,            \* DataFrame of the fetched prices (rows in order)
    sentiment_by_date,   \* date -> pooled scores of that date
    sentiment_dates,     \* sorted(sentiment_by_date.keys())
    i,                   \* loop index of the window loop
    patterns,            \* <<>> (None) or <<[bullish_patterns, ...]>>
    signals,             \* list returned by generate_trading_signals
    log,                 \* logger.warning / logger.error calls of the run
    args,                \* arguments of a direct call of one function
    result,              \* what that call returned
    evaluated            \* history: one entry per window the loop evaluated

vars == <<sentiment_analysis, stock_prices, pattern_config, pc, window_days, price_df,
          sentiment_by_date, sentiment_dates, i, patterns, signals, log,
          args, result, evaluated>>

-----------------------------------------------------------------------------
(* Bounds of the checked instances *)

MaxDay == 3
MaxRows == 3
MaxPriceDay == 3
MaxAvg == 4
MaxChange == 6

Days == 1..MaxDay
DayScores == {<<>>, <<10>>, <<-10>>, <<10, -3>>}
DayCloses == {<<>>, <<0>>, <<100>>, <<110>>}
WindowDaysValues == {1, 2}
MinMentionsValues == {1, 2}
PriceChangeThresholds == {5}
Symbol == <<"G", "M", "E">>

None == <<>>
Some(x) == <<x>>

-----------------------------------------------------------------------------
(* Arithmetic helpers *)

Abs(x) == IF x < 0 THEN -x ELSE x

Min(a, b) == IF a < b THEN a ELSE b

RECURSIVE GCD(_, _)
GCD(a, b) == IF b = 0 THEN a ELSE GCD(b, a % b)

\* the fraction n/d (d > 0) in lowest terms; 0/0, the mean of no scores, is
\* nan, held as [num |-> 0, den |-> 0]: every comparison with it is false
Frac(n, d) ==
    IF d = 0 THEN [num |-> 0, den |-> 0]
    ELSE LET g == GCD(Abs(n), d)
         IN  [num |-> n \div g, den |-> d \div g]

\* f > k and f < k for a fraction f and an integer k
FracGT(f, k) == f.num > k * f.den
FracLT(f, k) == f.num < k * f.den

RECURSIVE SumSeq(_)
SumSeq(s) == IF s = <<>> THEN 0 ELSE Head(s) + SumSeq(Tail(s))

RECURSIVE SumSquares(_)
SumSquares(s) == IF s = <<>> THEN 0 ELSE Head(s) * Head(s) + SumSquares(Tail(s))

Range(s) == {s[k] : k \in DOMAIN s}

RECURSIVE Concat(_)
Concat(ss) == IF ss = <<>> THEN <<>> ELSE Head(ss) \o Concat(Tail(ss))

\* the dates latest first, the order the records are fetched in; C18
\* distinguishes it from SortedSeq
RECURSIVE LatestFirstSeq(_)
LatestFirstSeq(S) ==
    IF S = {} THEN <<>>
    ELSE LET m == CHOOSE x \in S : \A y \in S : x >= y
         IN  <<m>> \o LatestFirstSeq(S \ {m})

\* sorted(set of integers), ascending
RECURSIVE SortedSeq(_)
SortedSeq(S) ==
    IF S = {} THEN <<>>
    ELSE LET m == CHOOSE x \in S : \A y \in S : x <= y
         IN  <<m>> \o SortedSeq(S \ {m})

Reverse(s) == [k \in 1..Len(s) |-> s[Len(s) + 1 - k]]

\* stable ascending sort of records by an integer key
RECURSIVE InsertBy(_, _, _)
InsertBy(sorted, r, key) ==
    IF sorted = <<>> THEN <<r>>
    ELSE IF Head(sorted)[key] <= r[key]
         THEN <<Head(sorted)>> \o InsertBy(Tail(sorted), r, key)
         ELSE <<r>> \o sorted

RECURSIVE InsertionSort(_, _)
InsertionSort(s, key) ==
    IF s = <<>> THEN <<>>
    ELSE InsertBy(InsertionSort(SubSeq(s, 1, Len(s) - 1), key), s[Len(s)], key)

\* a sorted list is its own stable sort
SortBy(s, key) ==
    IF \A k \in 1..(Len(s) - 1) : s[k][key] <= s[k + 1][key]
    THEN s
    ELSE InsertionSort(s, key)

-----------------------------------------------------------------------------
(* Strings as sequences of characters *)

upper(s) ==
    [k \in 1..Len(s) |->
        CASE s[k] = "g" -> "G"
          [] s[k] = "m" -> "M"
          [] s[k] = "e" -> "E"
          [] OTHER -> s[k]]

\* Python's `needle in hay` for strings
contains(hay, needle) ==
    \E k \in 0..(Len(hay) - Len(needle)) :
        SubSeq(hay, k + 1, k + Len(needle)) = needle

\* datetime.date() of a datetime
DateOf(t) == t \div 2

-----------------------------------------------------------------------------
(* Document store: src/database.py *)

SentimentLimit == 100

\* find({'stock_symbol': SYMBOL}).sort('analyzed_at', DESCENDING).limit(limit);
\* records with equal stamps come latest insertion first
get_sentiments_by_stock(col, stock_symbol) ==
    LET SYMBOL == upper(stock_symbol)
        match(r) == r.stock_symbol = SYMBOL
        found == SelectSeq(col, match)
        sorted == Reverse(SortBy(found, "analyzed_at"))
    IN  SubSeq(sorted, 1, Min(Len(sorted), SentimentLimit))

\* a price query without the start date; C11 distinguishes it from
\* get_stock_prices
get_stock_prices_any_date(col, symbol, start_date) ==
    LET SYMBOL == upper(symbol)
        match(r) == r.symbol = SYMBOL
        found == SelectSeq(col, match)
    IN  SortBy(found, "date")

\* find({'symbol': SYMBOL, 'date': {'$gte': start_date}}).sort('date', ASCENDING)
get_stock_prices(col, symbol, start_date) ==
    LET SYMBOL == upper(symbol)
        match(r) == /\ r.symbol = SYMBOL
                    /\ (start_date # None => r.date >= start_date[1])
        found == SelectSeq(col, match)
    IN  SortBy(found, "date")

-----------------------------------------------------------------------------
(* Pattern analyzer: src/pattern_analyzer.py *)

SentimentThreshold == 3
SignalConfidence == 7

\* date -> list of the scores recorded on that date for the symbol, in the
\* order of the records
_group_sentiment_by_date(sentiments, symbol) ==
    LET SYMBOL == upper(symbol)
        grouped(sentiment) ==
            /\ contains(sentiment.stock_symbol, SYMBOL)
            /\ SYMBOL \in DOMAIN sentiment.sentiments
        kept == SelectSeq(sentiments, grouped)
        date_key(sentiment) == DateOf(sentiment.analyzed_at)
    IN  [d \in {date_key(kept[k]) : k \in 1..Len(kept)} |->
            LET on_d(sentiment) == date_key(sentiment) = d
                recs == SelectSeq(kept, on_d)
            IN  [k \in 1..Len(recs) |-> recs[k].sentiments[SYMBOL]]]

\* a lookup that takes the least signed difference instead of the least
\* absolute one; C5 distinguishes it from _get_price_at_date
NearestBySignedDifference(df, target_date) ==
    IF df = <<>> THEN None
    ELSE LET rows == 1..Len(df)
             filtered == {k \in rows : DateOf(df[k].date) = target_date}
             date_diff(k) == DateOf(df[k].date) - target_date
             idxmin == CHOOSE k \in rows :
                         /\ \A m \in rows : date_diff(k) <= date_diff(m)
                         /\ \A m \in rows : m < k => date_diff(m) > date_diff(k)
         IN  IF filtered # {}
             THEN Some(df[CHOOSE k \in filtered : \A m \in filtered : m <= k].close)
             ELSE Some(df[idxmin].close)

\* a lookup whose nearest row is the last of the nearest ones instead of the
\* first; C6 distinguishes it from _get_price_at_date
NearestLastOfTies(df, target_date) ==
    IF df = <<>> THEN None
    ELSE LET rows == 1..Len(df)
             filtered == {k \in rows : DateOf(df[k].date) = target_date}
             date_diff(k) == Abs(DateOf(df[k].date) - target_date)
             idxmin == CHOOSE k \in rows :
                         /\ \A m \in rows : date_diff(k) <= date_diff(m)
                         /\ \A m \in rows : m > k => date_diff(m) > date_diff(k)
         IN  IF filtered # {}
             THEN Some(df[CHOOSE k \in filtered : \A m \in filtered : m <= k].close)
             ELSE Some(df[idxmin].close)

\* a lookup that gives up when the nearest row is more than a day away
NearestWithinOneDay(df, target_date) ==
    IF df = <<>> THEN None
    ELSE LET rows == 1..Len(df)
             filtered == {k \in rows : DateOf(df[k].date) = target_date}
             date_diff(k) == Abs(DateOf(df[k].date) - target_date)
             idxmin == CHOOSE k \in rows :
                         /\ \A m \in rows : date_diff(k) <= date_diff(m)
                         /\ \A m \in rows : m < k => date_diff(m) > date_diff(k)
         IN  IF filtered # {}
             THEN Some(df[CHOOSE k \in filtered : \A m \in filtered : m <= k].close)
             ELSE IF date_diff(idxmin) > 1 THEN None
             ELSE Some(df[idxmin].close)

\* closing price at, or closest to, target_date; None without a 'date' column
_get_price_at_date(df, target_date) ==
    IF df = <<>> THEN None
    ELSE
        LET rows == 1..Len(df)
            filtered == {k \in rows : DateOf(df[k].date) = target_date}
            date_diff(k) == Abs(DateOf(df[k].date) - target_date)
            \* idxmin: the first row holding the minimum
            idxmin == CHOOSE k \in rows :
                        /\ \A m \in rows : date_diff(k) <= date_diff(m)
                        /\ \A m \in rows : m < k => date_diff(m) > date_diff(k)
        IN  IF filtered # {}
            THEN Some(df[CHOOSE k \in filtered : \A m \in filtered : m <= k].close)
            ELSE Some(df[idxmin].close)

\* a confidence of max(0, 1 - std), the deviation not halved: in the variance
\* form four times the population variance, capped at 400
StdDevUnhalvedConfidence(scores) ==
    IF scores = <<>> THEN Frac(400, 1)
    ELSE
        LET n == Len(scores)
            var == Frac(4 * (n * SumSquares(scores) - SumSeq(scores) * SumSeq(scores)),
                        n * n)
        IN  IF FracGT(var, 400) THEN Frac(400, 1) ELSE var

\* a confidence from the sample standard deviation (n - 1); C15 distinguishes
\* it from _calculate_confidence
SampleVarianceConfidence(scores) ==
    IF scores = <<>> THEN Frac(400, 1)
    ELSE
        LET n == Len(scores)
            var == Frac(n * SumSquares(scores) - SumSeq(scores) * SumSeq(scores),
                        n * (n - 1))
        IN  IF FracGT(var, 400) THEN Frac(400, 1) ELSE var

\* a confidence that falls back to 0.5 for a single score; C16 distinguishes
\* it from _calculate_confidence
SingleScoreHalfConfidence(scores) ==
    IF scores = <<>> THEN Frac(400, 1)
    ELSE IF Len(scores) < 2 THEN Frac(100, 1)
    ELSE
        LET n == Len(scores)
            var == Frac(n * SumSquares(scores) - SumSeq(scores) * SumSeq(scores), n * n)
        IN  IF FracGT(var, 400) THEN Frac(400, 1) ELSE var

\* max(0, 1 - std/2), held as the fraction v = (2 * (1 - confidence))^2 in
\* squared tenths: the population variance of the scores, capped at 400
_calculate_confidence(scores) ==
    IF scores = <<>> THEN Frac(400, 1)
    ELSE
        LET n == Len(scores)
            var == Frac(n * SumSquares(scores) - SumSeq(scores) * SumSeq(scores), n * n)
        IN  IF FracGT(var, 400) THEN Frac(400, 1) ELSE var

\* confidence > t/10
ConfidenceGT(c, t) == (20 - 2 * t) > 0 /\ c.num < (20 - 2 * t) * (20 - 2 * t) * c.den

\* Python truthiness of an Optional[float]
Truthy(p) == p # None /\ p[1] # 0

\* Python list indexing: seq[k] with negative k counting from the end
PyIndexOK(seq, k) == -Len(seq) <= k /\ k < Len(seq)
PyIndex(seq, k) == IF k >= 0 THEN seq[k + 1] ELSE seq[Len(seq) + k + 1]

\* range(i, min(i + window_days, len(sentiment_dates))): the pooled scores
RECURSIVE PoolScores(_, _, _, _)
PoolScores(by_date, dates, j, stop) ==
    IF j >= stop THEN <<>>
    ELSE by_date[PyIndex(dates, j)] \o PoolScores(by_date, dates, j + 1, stop)

\* a pooling that keeps the date before the window's start once the loop
\* has moved on from it
WindowSentimentsKeepLeading(by_date, dates, start, w) ==
    PoolScores(by_date, dates, IF start > 0 THEN start - 1 ELSE 0,
               Min(start + w, Len(dates)))

\* a pooling that runs through the end date D[i+W] as well
WindowSentimentsThroughEnd(by_date, dates, start, w) ==
    PoolScores(by_date, dates, start, Min(start + w + 1, Len(dates)))

WindowSentiments(by_date, dates, start, w) ==
    PoolScores(by_date, dates, start, Min(start + w, Len(dates)))

\* a pattern whose mean is cut to whole tenths; C17 distinguishes it from
\* MakePattern
MakePatternWholeMean(window_start, window_end, scores, price_at_start, price_at_end) ==
    [window_start |-> window_start,
     window_end |-> window_end,
     avg_sentiment |-> Frac(SumSeq(scores) \div Len(scores), 1),
     mention_count |-> Len(scores),
     price_change_percent |-> Frac((price_at_end - price_at_start) * 100, price_at_start),
     confidence |-> _calculate_confidence(scores)]

\* the pattern dict of lines 123-130
MakePattern(window_start, window_end, scores, price_at_start, price_at_end) ==
    [window_start |-> window_start,
     window_end |-> window_end,
     avg_sentiment |-> Frac(SumSeq(scores), Len(scores)),
     mention_count |-> Len(scores),
     price_change_percent |-> Frac((price_at_end - price_at_start) * 100, price_at_start),
     confidence |-> _calculate_confidence(scores)]

\* a classification with inclusive comparisons; C2 distinguishes it from
\* Classify at the thresholds
ClassifyInclusive(avg_sentiment, price_change, price_change_threshold) ==
    IF /\ avg_sentiment.num >= SentimentThreshold * avg_sentiment.den
       /\ price_change.num >= price_change_threshold * price_change.den
    THEN "bullish_patterns"
    ELSE IF /\ avg_sentiment.num <= -SentimentThreshold * avg_sentiment.den
            /\ price_change.num <= -price_change_threshold * price_change.den
         THEN "bearish_patterns"
         ELSE "neutral_patterns"

\* the bucket of lines 132-137
Classify(avg_sentiment, price_change, price_change_threshold) ==
    IF FracGT(avg_sentiment, SentimentThreshold) /\ FracGT(price_change, price_change_threshold)
    THEN "bullish_patterns"
    ELSE IF /\ FracLT(avg_sentiment, -SentimentThreshold)
            /\ FracLT(price_change, -price_change_threshold)
         THEN "bearish_patterns"
         ELSE "neutral_patterns"

\* lines 132-137: the pattern appended to its bucket
AddPattern(p, pattern, price_change_threshold) ==
    LET bucket == Classify(pattern.avg_sentiment, pattern.price_change_percent,
                           price_change_threshold)
    IN  [p EXCEPT ![bucket] = Append(@, pattern)]

\* a loop bound that stops one window early; C1 distinguishes it from RangeStop
RangeStopShort(dates, w) == Len(dates) - w - 1

\* a loop bound that runs one window further; C10 distinguishes it from RangeStop
RangeStopLong(dates, w) == Len(dates) - w + 1

\* range(len(sentiment_dates) - window_days), line 101: the indices below this
RangeStop(dates, w) == Len(dates) - w

\* a mention test that lets a window one mention short through; C4
\* distinguishes it from TooFewMentions
TooFewMentionsLenient(window_sentiments, config) ==
    Len(window_sentiments) < config.min_mentions - 1

\* line 109
TooFewMentions(window_sentiments, config) ==
    Len(window_sentiments) < config.min_mentions

\* a price test that only asks the end price to be found; C9 distinguishes it
\* from PricesUsable
PricesUsableEndFound(price_at_start, price_at_end) ==
    Truthy(price_at_start) /\ price_at_end # None

\* a price test that only asks the start price to be found
PricesUsableStartFound(price_at_start, price_at_end) ==
    price_at_start # None /\ Truthy(price_at_end)

\* a price test that fails for the rest of the run once a window was skipped
\* for its price; C22 distinguishes it from PricesUsable
PricesUsableUntilSkip(price_at_start, price_at_end) ==
    /\ Truthy(price_at_start)
    /\ Truthy(price_at_end)
    /\ \A k \in DOMAIN evaluated : evaluated[k].outcome # "no_price"

\* line 119: `if price_at_start and price_at_end`
PricesUsable(price_at_start, price_at_end) ==
    Truthy(price_at_start) /\ Truthy(price_at_end)

\* a result dict that keeps the lists the earlier call returned; C19
\* distinguishes it from EmptyPatterns
EmptyPatternsKept(symbol, w) ==
    [symbol |-> symbol,
     window_days |-> w,
     bullish_patterns |->
        IF result # None /\ result[1].patterns # None
        THEN result[1].patterns[1].bullish_patterns ELSE <<>>,
     bearish_patterns |->
        IF result # None /\ result[1].patterns # None
        THEN result[1].patterns[1].bearish_patterns ELSE <<>>,
     neutral_patterns |->
        IF result # None /\ result[1].patterns # None
        THEN result[1].patterns[1].neutral_patterns ELSE <<>>,
     summary |-> <<>>]

EmptyPatterns(symbol, w) ==
    [symbol |-> symbol,
     window_days |-> w,
     bullish_patterns |-> <<>>,
     bearish_patterns |-> <<>>,
     neutral_patterns |-> <<>>,
     summary |-> <<>>]

\* sum of the fractions of a list, as a fraction
RECURSIVE SumFrac(_)
SumFrac(fs) ==
    IF fs = <<>> THEN Frac(0, 1)
    ELSE LET r == SumFrac(Tail(fs))
             f == Head(fs)
         IN  Frac(f.num * r.den + r.num * f.den, f.den * r.den)

AvgReturn(pattern_list) ==
    IF pattern_list = <<>> THEN None
    ELSE LET t == SumFrac([k \in 1..Len(pattern_list) |-> pattern_list[k].price_change_percent])
         IN  Some(Frac(t.num, t.den * Len(pattern_list)))

\* counts and average returns (the average confidences are not represented)
_calculate_summary_stats(p) ==
    [bullish_count |-> Len(p.bullish_patterns),
     bearish_count |-> Len(p.bearish_patterns),
     neutral_count |-> Len(p.neutral_patterns),
     total_patterns |-> Len(p.bullish_patterns) + Len(p.bearish_patterns)
                        + Len(p.neutral_patterns),
     bullish_avg_return |-> AvgReturn(p.bullish_patterns),
     bearish_avg_return |-> AvgReturn(p.bearish_patterns)]

\* signals made for every pattern, whatever its confidence; C7 distinguishes it
\* from SignalsOf
SignalsOfEveryPattern(pattern_list, symbol, signal_type, kind) ==
    [k \in 1..Len(pattern_list) |->
        [symbol |-> symbol,
         signal_type |-> signal_type,
         confidence |-> pattern_list[k].confidence,
         expected_return |-> pattern_list[k].price_change_percent,
         pattern_date |-> pattern_list[k].window_end,
         reason |-> [kind |-> kind, mentions |-> pattern_list[k].mention_count]]]

\* signals dated at the start of the window; C8 distinguishes it from SignalsOf
SignalsOfWindowStart(pattern_list, symbol, signal_type, kind) ==
    LET confident(pattern) == ConfidenceGT(pattern.confidence, SignalConfidence)
        kept == SelectSeq(pattern_list, confident)
    IN  [k \in 1..Len(kept) |->
            [symbol |-> symbol,
             signal_type |-> signal_type,
             confidence |-> kept[k].confidence,
             expected_return |-> kept[k].price_change_percent,
             pattern_date |-> kept[k].window_start,
             reason |-> [kind |-> kind, mentions |-> kept[k].mention_count]]]

\* the signals of one bucket, lines 298-307 and 310-319
RECURSIVE SignalsOf(_, _, _, _)
SignalsOf(pattern_list, symbol, signal_type, kind) ==
    IF pattern_list = <<>> THEN <<>>
    ELSE
        LET pattern == Head(pattern_list)
            rest == SignalsOf(Tail(pattern_list), symbol, signal_type, kind)
        IN  IF ConfidenceGT(pattern.confidence, SignalConfidence)
            THEN <<[symbol |-> symbol,
                    signal_type |-> signal_type,
                    confidence |-> pattern.confidence,
                    expected_return |-> pattern.price_change_percent,
                    pattern_date |-> pattern.window_end,
                    reason |-> [kind |-> kind, mentions |-> pattern.mention_count]]>> \o rest
            ELSE rest

\* a signal list with the SELL loop run before the BUY loop
MakeSignalsSellFirst(p, symbol) ==
    SignalsOf(p.bearish_patterns, symbol, "SELL", "Bearish")
        \o SignalsOf(p.bullish_patterns, symbol, "BUY", "Bullish")

\* lines 296-319: the BUY loop over the bullish patterns, then the SELL loop
\* over the bearish ones
MakeSignals(p, symbol) ==
    SignalsOf(p.bullish_patterns, symbol, "BUY", "Bullish")
        \o SignalsOf(p.bearish_patterns, symbol, "SELL", "Bearish")

-----------------------------------------------------------------------------
(* The stores and configurations of the checked instances *)

SentimentRecord(t, score) ==
    [stock_symbol |-> Symbol, analyzed_at |-> t, sentiments |-> (Symbol :> score)]

PriceRecord(d, close) == [symbol |-> Symbol, date |-> 2 * d, close |-> close]

\* insert_sentiment stamps analyzed_at with the clock, so the collection is in
\* stamp order: day by day, the records analysed on that day
SentimentStores ==
    {Concat([d \in Days |->
                [k \in 1..Len(by_day[d]) |-> SentimentRecord(2 * d, by_day[d][k])]])
        : by_day \in [Days -> DayScores]}

\* save_stock_data_to_db inserts the rows of a fetch in date order; a day
\* without trading has no row
PriceStores ==
    {Concat([d \in Days |->
                IF by_day[d] = None THEN <<>> ELSE <<PriceRecord(d, by_day[d][1])>>])
        : by_day \in [Days -> DayCloses]}

\* a window of window_days dates pools at least window_days scores, so a
\* smaller min_mentions behaves as min_mentions = window_days
Configs ==
    {c \in [window_days : WindowDaysValues,
            min_mentions : MinMentionsValues,
            price_change_threshold : PriceChangeThresholds] :
        c.min_mentions >= c.window_days}

\* the values before any call
Fresh ==
    /\ window_days = 0
    /\ price_df = <<>>
    /\ sentiment_by_date = <<>>
    /\ sentiment_dates = <<>>
    /\ i = 0
    /\ signals = <<>>
    /\ log = <<>>
    /\ result = None
    /\ evaluated = <<>>

Init ==
    /\ sentiment_analysis \in SentimentStores
    /\ stock_prices \in PriceStores
    /\ pattern_config \in Configs
    /\ pc = "idle"
    /\ patterns = None
    /\ args = None
    /\ Fresh

-----------------------------------------------------------------------------
(* generate_trading_signals(symbol), in steps *)

\* the call generate_trading_signals makes at line 290: find_tradeable_patterns
\* lines 37-54 and the set-up of _analyze_sentiment_price_patterns, lines
\* 75-99; without data it returns None and the caller returns [] (line 293)
find_tradeable_patterns ==
    /\ pc = "idle"
    /\ LET sentiments == get_sentiments_by_stock(sentiment_analysis, Symbol)
           min_sentiment_date ==
               CHOOSE t \in {r.analyzed_at : r \in Range(sentiments)} :
                   \A r \in Range(sentiments) : t <= r.analyzed_at
           prices == get_stock_prices(stock_prices, Symbol, Some(min_sentiment_date))
           by_date == _group_sentiment_by_date(sentiments, Symbol)
       IN  IF sentiments = <<>>
           THEN /\ log' = Append(log, "warning: no sentiment data")
                /\ pc' = "done"
                /\ UNCHANGED <<window_days, price_df, sentiment_by_date,
                               sentiment_dates, patterns>>
           ELSE IF prices = <<>>
           THEN /\ log' = Append(log, "warning: no price data")
                /\ pc' = "done"
                /\ UNCHANGED <<window_days, price_df, sentiment_by_date,
                               sentiment_dates, patterns>>
           ELSE /\ window_days' = pattern_config.window_days
                /\ price_df' = prices
                /\ sentiment_by_date' = by_date
                /\ sentiment_dates' = SortedSeq(DOMAIN by_date)
                /\ patterns' = Some(EmptyPatterns(Symbol, pattern_config.window_days))
                /\ pc' = "windows"
                /\ UNCHANGED log
    /\ i' = 0
    /\ signals' = <<>>
    /\ UNCHANGED <<sentiment_analysis, stock_prices, pattern_config, args, result,
                   evaluated>>

\* one iteration of the loop of lines 101-137
analyze_window ==
    /\ pc = "windows"
    /\ i < RangeStop(sentiment_dates, window_days)
    /\ IF ~PyIndexOK(sentiment_dates, i) \/ ~PyIndexOK(sentiment_dates, i + window_days)
       THEN \* IndexError, caught at line 144: the analysis returns None and
            \* generate_trading_signals returns [] (line 293)
            /\ log' = Append(log, "error: sentiment-price analysis")
            /\ patterns' = None
            /\ pc' = "done"
            /\ UNCHANGED <<i, evaluated>>
       ELSE /\ i' = i + 1
            /\ UNCHANGED <<pc, log>>
            /\ LET window_start == PyIndex(sentiment_dates, i)
                   window_end == PyIndex(sentiment_dates, i + window_days)
                   window_sentiments ==
                       WindowSentiments(sentiment_by_date, sentiment_dates, i, window_days)
                   price_at_start == _get_price_at_date(price_df, window_start)
                   price_at_end == _get_price_at_date(price_df, window_end)
                   entry == [index |-> i,
                             window_start |-> window_start,
                             window_end |-> window_end,
                             mention_count |-> Len(window_sentiments),
                             min_mentions |-> pattern_config.min_mentions]
               IN  IF TooFewMentions(window_sentiments, pattern_config)
                   THEN /\ evaluated' = Append(evaluated,
                              entry @@ [outcome |-> "few_mentions",
                                        price_at_start |-> None, price_at_end |-> None])
                        /\ UNCHANGED patterns
                   ELSE IF PricesUsable(price_at_start, price_at_end)
                   THEN /\ patterns' = Some(AddPattern(patterns[1],
                                MakePattern(window_start, window_end, window_sentiments,
                                            price_at_start[1], price_at_end[1]),
                                pattern_config.price_change_threshold))
                        /\ evaluated' = Append(evaluated,
                              entry @@ [outcome |-> "pattern",
                                        price_at_start |-> price_at_start,
                                        price_at_end |-> price_at_end])
                   ELSE /\ evaluated' = Append(evaluated,
                              entry @@ [outcome |-> "no_price",
                                        price_at_start |-> price_at_start,
                                        price_at_end |-> price_at_end])
                        /\ UNCHANGED patterns
    /\ UNCHANGED <<sentiment_analysis, stock_prices, pattern_config, window_days,
                   price_df, sentiment_by_date, sentiment_dates, signals, args, result>>

\* the loop is exhausted: the summary and the return of lines 139-142, then
\* the signals of generate_trading_signals, lines 292-321
generate_trading_signals ==
    /\ pc = "windows"
    /\ i >= RangeStop(sentiment_dates, window_days)
    /\ LET returned == [patterns[1] EXCEPT
                          !.summary = _calculate_summary_stats(patterns[1])]
       IN  /\ patterns' = Some(returned)
           /\ signals' = MakeSignals(returned, Symbol)
    /\ pc' = "done"
    /\ UNCHANGED <<sentiment_analysis, stock_prices, pattern_config, window_days,
                   price_df, sentiment_by_date, sentiment_dates, i, log, args, result,
                   evaluated>>

Next ==
    \/ find_tradeable_patterns
    \/ analyze_window
    \/ generate_trading_signals

Spec == Init /\ [][Next]_vars

-----------------------------------------------------------------------------
(* _get_price_at_date called on a price list in any order *)

\* the defaults of the pattern_config.get calls
DefaultConfig == [window_days |-> 7, min_mentions |-> 5, price_change_threshold |-> 5]

PriceLists ==
    LET rows == {PriceRecord(d, c) : d \in 1..MaxPriceDay, c \in {100, 110}}
    IN  UNION {[1..n -> rows] : n \in 0..MaxRows}

InitPrice ==
    /\ args \in [price_df : PriceLists, target_date : 0..(MaxPriceDay + 1)]
    /\ sentiment_analysis = <<>>
    /\ stock_prices = <<>>
    /\ pattern_config = DefaultConfig
    /\ pc = "call"
    /\ patterns = None
    /\ Fresh

call_get_price_at_date ==
    /\ pc = "call"
    /\ DOMAIN args = {"price_df", "target_date"}
    /\ result' = Some(_get_price_at_date(args.price_df, args.target_date))
    /\ pc' = "returned"
    /\ UNCHANGED <<sentiment_analysis, stock_prices, pattern_config, window_days,
                   price_df, sentiment_by_date, sentiment_dates, i, patterns, signals,
                   log, args, evaluated>>

SpecPrice == InitPrice /\ [][call_get_price_at_date]_vars

-----------------------------------------------------------------------------
(* the classification of lines 132-137 applied to one pattern *)

Halves(m) == {Frac(n, 2) : n \in (-2 * m)..(2 * m)}

InitClassify ==
    /\ args \in [avg_sentiment : Halves(MaxAvg),
                 price_change_percent : Halves(MaxChange),
                 price_change_threshold : PriceChangeThresholds]
    /\ sentiment_analysis = <<>>
    /\ stock_prices = <<>>
    /\ pattern_config = DefaultConfig
    /\ pc = "call"
    /\ patterns = Some(EmptyPatterns(Symbol, DefaultConfig.window_days))
    /\ Fresh

ArgsPattern ==
    [window_start |-> 1,
     window_end |-> 2,
     avg_sentiment |-> args.avg_sentiment,
     mention_count |-> 1,
     price_change_percent |-> args.price_change_percent,
     confidence |-> Frac(0, 1)]

classify_pattern ==
    /\ pc = "call"
    /\ DOMAIN args = {"avg_sentiment", "price_change_percent", "price_change_threshold"}
    /\ patterns' = Some(AddPattern(patterns[1], ArgsPattern, args.price_change_threshold))
    /\ pc' = "returned"
    /\ UNCHANGED <<sentiment_analysis, stock_prices, pattern_config, window_days,
                   price_df, sentiment_by_date, sentiment_dates, i, signals, log, args,
                   result, evaluated>>

SpecClassify == InitClassify /\ [][classify_pattern]_vars

-----------------------------------------------------------------------------
(* What the checked properties are stated in: the stored records themselves *)

\* the distinct dates of the stored sentiment records, ascending
StoreDates == SortedSeq({DateOf(r.analyzed_at) : r \in Range(sentiment_analysis)})

\* how many stored records are dated d
StoreCount(d) ==
    Cardinality({k \in DOMAIN sentiment_analysis :
                    DateOf(sentiment_analysis[k].analyzed_at) = d})

\* how many stored records fall on the dates D[k] .. D[k + w - 1] (k from 1)
RECURSIVE StorePooled(_, _)
StorePooled(k, w) ==
    IF w <= 0 \/ k > Len(StoreDates) THEN 0
    ELSE StoreCount(StoreDates[k]) + StorePooled(k + 1, w - 1)

AllPatterns ==
    IF patterns = None THEN <<>>
    ELSE patterns[1].bullish_patterns \o patterns[1].bearish_patterns
            \o patterns[1].neutral_patterns

\* the detector (_analyze_sentiment_price_patterns) was entered and has returned
DetectorReturned == pc = "done" /\ price_df # <<>>

NoErrorLogged == \A k \in DOMAIN log : log[k] # "error: sentiment-price analysis"

\* confidence > 0.7, i.e. standard deviation < 0.6, variance < 36 squared tenths
Qualifies(pattern) == pattern.confidence.num < 36 * pattern.confidence.den

-----------------------------------------------------------------------------
(* C1: for the sorted distinct sentiment dates D and window length W the
   detector evaluates exactly the start indices 0 .. len(D)-W-1, in order
   (none when len(D) <= W), and window i runs from D[i] to D[i+W]; the
   windows are counted in sentiment dates, whatever calendar gaps lie
   between them. *)
C1_WindowStarts ==
    LET D == StoreDates
        W == pattern_config.window_days
    IN  /\ \A k \in DOMAIN evaluated :
              /\ evaluated[k].index = k - 1
              /\ k + W <= Len(D)
              /\ evaluated[k].window_start = D[k]
              /\ evaluated[k].window_end = D[k + W]
        /\ DetectorReturned =>
              Len(evaluated) = IF Len(D) > W THEN Len(D) - W ELSE 0

\* a window was evaluated whose dates are further apart than W calendar days
C1_Witness ==
    /\ DetectorReturned
    /\ \E k \in DOMAIN evaluated :
          evaluated[k].window_end - evaluated[k].window_start > pattern_config.window_days

(* C2: a pattern is put in the bullish list iff avg_sentiment > 0.3 and
   price_change_percent > price_change_threshold, in the bearish list iff
   avg_sentiment < -0.3 and price_change_percent < -price_change_threshold,
   and in the neutral list in every other case (a value equal to its
   threshold included); it is in exactly one of the three lists. *)
C2_Classification ==
    (pc = "returned" /\ DOMAIN args = {"avg_sentiment", "price_change_percent",
                                        "price_change_threshold"}) =>
        LET a == args.avg_sentiment
            c == args.price_change_percent
            T == args.price_change_threshold
            bull == a.num > 3 * a.den /\ c.num > T * c.den
            bear == a.num < -3 * a.den /\ c.num < -T * c.den
            p == patterns[1]
        IN  /\ p.bullish_patterns = IF bull THEN <<ArgsPattern>> ELSE <<>>
            /\ p.bearish_patterns = IF bear THEN <<ArgsPattern>> ELSE <<>>
            /\ p.neutral_patterns = IF ~bull /\ ~bear THEN <<ArgsPattern>> ELSE <<>>
            /\ Len(p.bullish_patterns) + Len(p.bearish_patterns)
                  + Len(p.neutral_patterns) = 1

\* avg_sentiment exactly 0.3 with a price change above the threshold: neutral
C2_Witness ==
    /\ pc = "returned"
    /\ DOMAIN args = {"avg_sentiment", "price_change_percent", "price_change_threshold"}
    /\ args.avg_sentiment = [num |-> 3, den |-> 1]
    /\ args.price_change_percent.num > args.price_change_threshold * args.price_change_percent.den
    /\ Len(patterns[1].neutral_patterns) = 1

(* C3: every evaluated window whose pooled mention count is at least
   min_mentions and whose start and end prices both resolve to a closing
   price, whatever its value, has exactly one pattern; a window is dropped
   only for too few mentions or an unresolved price. *)
C3_ResolvedWindowHasPattern ==
    DetectorReturned =>
        \A k \in DOMAIN evaluated :
            LET e == evaluated[k]
                resolved ==
                    /\ _get_price_at_date(price_df, e.window_start) # None
                    /\ _get_price_at_date(price_df, e.window_end) # None
                made == {j \in DOMAIN AllPatterns :
                            AllPatterns[j].window_start = e.window_start}
            IN  (e.mention_count >= pattern_config.min_mentions /\ resolved)
                    <=> Cardinality(made) = 1

(* C4: every emitted pattern has mention_count >= min_mentions, and a window
   whose dates hold fewer stored scores than min_mentions has no pattern in
   any list. *)
C4_MinMentions ==
    /\ \A j \in DOMAIN AllPatterns :
          AllPatterns[j].mention_count >= pattern_config.min_mentions
    /\ \A k \in DOMAIN evaluated :
          StorePooled(k, pattern_config.window_days) < pattern_config.min_mentions =>
              \A j \in DOMAIN AllPatterns :
                  AllPatterns[j].window_start # evaluated[k].window_start

\* one window of the run was skipped for too few mentions, another made a pattern
C4_Witness ==
    /\ DetectorReturned
    /\ AllPatterns # <<>>
    /\ \E k \in DOMAIN evaluated :
          StorePooled(k, pattern_config.window_days) < pattern_config.min_mentions

-----------------------------------------------------------------------------
(* The price lookup, stated over the rows it was given *)

PriceCallReturned ==
    pc = "returned" /\ DOMAIN args = {"price_df", "target_date"}

RowDate(k) == DateOf(args.price_df[k].date)

RowDistance(k) == Abs(RowDate(k) - args.target_date)

ExactRows == {k \in DOMAIN args.price_df : RowDate(k) = args.target_date}

NearestRows ==
    {k \in DOMAIN args.price_df :
        \A m \in DOMAIN args.price_df : RowDistance(k) <= RowDistance(m)}

\* the nearest rows lie on both sides of the requested date, equally far
IsTie ==
    /\ ExactRows = {}
    /\ \E k \in NearestRows : RowDate(k) < args.target_date
    /\ \E k \in NearestRows : RowDate(k) > args.target_date

EarlierClose(close) ==
    \E k \in NearestRows : RowDate(k) < args.target_date /\ args.price_df[k].close = close

AscendingDates ==
    \A k \in DOMAIN args.price_df : \A m \in DOMAIN args.price_df :
        k < m => args.price_df[k].date <= args.price_df[m].date

(* C5: for a non-empty price sequence the lookup returns the close of a
   point dated exactly the requested date when there is one, and otherwise
   the close of a point whose absolute distance in time to the requested
   date is the least of all points. *)
C5_ExactElseNearest ==
    (PriceCallReturned /\ args.price_df # <<>>) =>
        /\ result[1] # None
        /\ \E k \in (IF ExactRows # {} THEN ExactRows ELSE NearestRows) :
              result[1][1] = args.price_df[k].close

\* no exact match, rows at different distances with different closes
C5_Witness ==
    /\ PriceCallReturned
    /\ Len(args.price_df) >= 2
    /\ ExactRows = {}
    /\ NearestRows # DOMAIN args.price_df
    /\ \E k \in DOMAIN args.price_df : args.price_df[k].close # result[1][1]

(* C6 as stated: when the requested date has no exact match and an earlier
   and a later point are equally near, the lookup returns the close of the
   earlier-dated point, for every ordering of the price sequence. *)
C6_TieEarlierAnyOrder ==
    (PriceCallReturned /\ IsTie) =>
        result[1] # None /\ EarlierClose(result[1][1])

(* C6: when the price sequence is in ascending date order (the order
   get_stock_prices returns), the requested date has no exact match and an
   earlier and a later point are equally near, the lookup returns the close
   of the earlier-dated point. *)
C6_TieEarlierAscending ==
    (PriceCallReturned /\ IsTie /\ AscendingDates) =>
        result[1] # None /\ EarlierClose(result[1][1])

\* an ascending sequence, a tie, and the later point has another close
C6_Witness ==
    /\ PriceCallReturned
    /\ IsTie
    /\ AscendingDates
    /\ \E k \in NearestRows :
          RowDate(k) > args.target_date /\ args.price_df[k].close # result[1][1]

-----------------------------------------------------------------------------
(* Signals against the patterns they were made from *)

Bullish == IF patterns = None THEN <<>> ELSE patterns[1].bullish_patterns

Bearish == IF patterns = None THEN <<>> ELSE patterns[1].bearish_patterns

Neutral == IF patterns = None THEN <<>> ELSE patterns[1].neutral_patterns

SignalsFor(pattern, signal_type) ==
    {k \in DOMAIN signals :
        /\ signals[k].signal_type = signal_type
        /\ signals[k].pattern_date = pattern.window_end}

(* C7: signal generation emits one BUY signal for each bullish pattern with
   confidence > 0.7, one SELL signal for each bearish pattern with
   confidence > 0.7, and nothing else: the number of signals is the number
   of such patterns, and no neutral pattern has a signal. *)
C7_SignalsPerPattern ==
    pc = "done" =>
        /\ \A j \in DOMAIN Bullish :
              /\ Cardinality(SignalsFor(Bullish[j], "BUY")) =
                    IF Qualifies(Bullish[j]) THEN 1 ELSE 0
              /\ SignalsFor(Bullish[j], "SELL") = {}
        /\ \A j \in DOMAIN Bearish :
              /\ Cardinality(SignalsFor(Bearish[j], "SELL")) =
                    IF Qualifies(Bearish[j]) THEN 1 ELSE 0
              /\ SignalsFor(Bearish[j], "BUY") = {}
        /\ \A j \in DOMAIN Neutral :
              SignalsFor(Neutral[j], "BUY") \cup SignalsFor(Neutral[j], "SELL") = {}
        /\ Len(signals) =
              Cardinality({j \in DOMAIN Bullish : Qualifies(Bullish[j])})
                + Cardinality({j \in DOMAIN Bearish : Qualifies(Bearish[j])})

\* one run with a signal and with a directional pattern too uncertain for one
C7_Witness ==
    /\ pc = "done"
    /\ signals # <<>>
    /\ \E j \in DOMAIN (Bullish \o Bearish) : ~Qualifies((Bullish \o Bearish)[j])

(* C8: every signal carries its pattern's values: a BUY signal comes from a
   bullish pattern and a SELL signal from a bearish one, with
   expected_return equal to the pattern's price_change_percent, confidence
   equal to the pattern's confidence and pattern_date equal to the
   pattern's window_end. *)
C8_SignalCopiesPattern ==
    pc = "done" =>
        \A k \in DOMAIN signals :
            LET source == IF signals[k].signal_type = "BUY" THEN Bullish ELSE Bearish
            IN  /\ signals[k].signal_type \in {"BUY", "SELL"}
                /\ \E j \in DOMAIN source :
                      /\ signals[k].pattern_date = source[j].window_end
                      /\ signals[k].expected_return = source[j].price_change_percent
                      /\ signals[k].confidence = source[j].confidence

\* a BUY and a SELL signal in one run, with different expected returns
C8_Witness ==
    /\ pc = "done"
    /\ \E k \in DOMAIN signals : \E m \in DOMAIN signals :
          /\ signals[k].signal_type = "BUY"
          /\ signals[m].signal_type = "SELL"
          /\ signals[k].expected_return # signals[m].expected_return

-----------------------------------------------------------------------------
(* C9 as stated: a sentiment series with exactly window_days distinct dates
   has exactly one evaluated window. *)
C9_OneWindowAtWindowDays ==
    (DetectorReturned /\ Len(StoreDates) = pattern_config.window_days) =>
        Len(evaluated) = 1

(* C9: a sentiment series with exactly window_days distinct dates has no
   evaluated window and no pattern; a series with exactly window_days + 1
   distinct dates has exactly one evaluated window, the one starting at
   index 0, and one pattern when that window is kept, none otherwise. *)
C9_OneWindowAtWindowDaysPlusOne ==
    DetectorReturned =>
        /\ Len(StoreDates) = pattern_config.window_days =>
              evaluated = <<>> /\ AllPatterns = <<>>
        /\ Len(StoreDates) = pattern_config.window_days + 1 =>
              /\ Len(evaluated) = 1
              /\ evaluated[1].index = 0
              /\ Len(AllPatterns) =
                    IF evaluated[1].outcome = "pattern" THEN 1 ELSE 0
              /\ evaluated[1].outcome = "pattern" <=>
                    /\ StorePooled(1, pattern_config.window_days)
                          >= pattern_config.min_mentions
                    /\ Truthy(_get_price_at_date(price_df, StoreDates[1]))
                    /\ Truthy(_get_price_at_date(price_df,
                                    StoreDates[pattern_config.window_days + 1]))

\* window_days + 1 dates, window_days > 1, and the single window made a pattern
C9_Witness ==
    /\ DetectorReturned
    /\ pattern_config.window_days > 1
    /\ Len(StoreDates) = pattern_config.window_days + 1
    /\ Len(AllPatterns) = 1

(* C10: with fewer than window_days + 1 distinct sentiment dates the
   detector returns a result whose bullish, bearish and neutral lists are
   all empty, and no error is raised. *)
C10_TooFewDatesEmpty ==
    (DetectorReturned /\ Len(StoreDates) < pattern_config.window_days + 1) =>
        /\ patterns # None
        /\ patterns[1].bullish_patterns = <<>>
        /\ patterns[1].bearish_patterns = <<>>
        /\ patterns[1].neutral_patterns = <<>>
        /\ NoErrorLogged

\* exactly window_days dates, with enough mentions and prices for a pattern
C10_Witness ==
    /\ DetectorReturned
    /\ Len(StoreDates) = pattern_config.window_days
    /\ StorePooled(1, pattern_config.window_days) >= pattern_config.min_mentions
    /\ Truthy(_get_price_at_date(price_df, StoreDates[1]))
    /\ patterns # None

-----------------------------------------------------------------------------
(* Missing data *)

NoSentimentRecords ==
    \A k \in DOMAIN sentiment_analysis : sentiment_analysis[k].stock_symbol # Symbol

\* no price point of the symbol at or after the first sentiment record
NoPricePoints ==
    \A k \in DOMAIN stock_prices :
        \/ stock_prices[k].symbol # Symbol
        \/ \A m \in DOMAIN sentiment_analysis :
              sentiment_analysis[m].stock_symbol = Symbol =>
                  stock_prices[k].date < sentiment_analysis[m].analyzed_at

(* C11: when the symbol has no sentiment records, or no price points for the
   period of its sentiment records, the analysis ends without an error: the
   result is absent, no window is evaluated, no pattern exists and the signal
   list is empty; and the price lookup on an empty series returns None for
   every date. *)
C11_EmptyInput ==
    /\ \A d \in 0..(MaxDay + 1) : _get_price_at_date(<<>>, d) = None
    /\ (pc = "done" /\ (NoSentimentRecords \/ NoPricePoints)) =>
          /\ patterns = None
          /\ evaluated = <<>>
          /\ signals = <<>>
          /\ NoErrorLogged

\* sentiment records and price rows are stored, but every price row is older
\* than the first sentiment record
C11_Witness ==
    /\ pc = "done"
    /\ ~NoSentimentRecords
    /\ stock_prices # <<>>
    /\ NoPricePoints
    /\ Len(StoreDates) > pattern_config.window_days
    /\ signals = <<>>

-----------------------------------------------------------------------------
(* generate_trading_signals under configurations nothing has validated *)

UncheckedWindowDays == {-1, 0, 1}

UncheckedMinMentions == {0, 1}

\* _validate_config only looks for the top-level sections, so any value of
\* window_days and min_mentions reaches the analyzer
UncheckedConfigs ==
    [window_days : UncheckedWindowDays,
     min_mentions : UncheckedMinMentions,
     price_change_threshold : PriceChangeThresholds]

InitUnchecked ==
    /\ sentiment_analysis \in SentimentStores
    /\ stock_prices \in PriceStores
    /\ pattern_config \in UncheckedConfigs
    /\ pc = "idle"
    /\ patterns = None
    /\ args = None
    /\ Fresh

SpecUnchecked == InitUnchecked /\ [][Next]_vars

InvalidConfiguration ==
    pattern_config.window_days <= 0 \/ pattern_config.min_mentions <= 0

(* C12: under a configuration with non-positive window_days or non-positive
   min_mentions no window is ever pooled, priced or classified, and a
   detector that was entered ends with a configuration error reported. *)
C12_InvalidConfigRejected ==
    InvalidConfiguration =>
        /\ evaluated = <<>>
        /\ AllPatterns = <<>>
        /\ DetectorReturned => \E k \in DOMAIN log : log[k] = "error: configuration"

-----------------------------------------------------------------------------
(* generate_trading_signals under configurations that set the thresholds *)

ConfidenceSignalThresholds == {5, 7}

SentimentThresholds == {3, 5}

\* a pattern_analysis section that also names a signal confidence threshold
\* and a sentiment threshold (in tenths); the analyzer reads neither key
ThresholdConfigs ==
    [window_days : {1},
     min_mentions : {1},
     price_change_threshold : PriceChangeThresholds,
     confidence_signal_threshold : ConfidenceSignalThresholds,
     sentiment_threshold : SentimentThresholds]

InitThresholds ==
    /\ sentiment_analysis \in SentimentStores
    /\ stock_prices \in PriceStores
    /\ pattern_config \in ThresholdConfigs
    /\ pc = "idle"
    /\ patterns = None
    /\ args = None
    /\ Fresh

SpecThresholds == InitThresholds /\ [][Next]_vars

\* confidence > t/10 for the stored variance form of a confidence
ConfidenceExceeds(pattern, t) ==
    pattern.confidence.num < (20 - 2 * t) * (20 - 2 * t) * pattern.confidence.den

(* C13: for the configured confidence_signal_threshold T, a bullish pattern
   has a BUY signal and a bearish pattern a SELL signal iff its confidence
   is greater than T. *)
C13_ConfiguredConfidenceThreshold ==
    pc = "done" =>
        LET T == pattern_config.confidence_signal_threshold
        IN  /\ \A j \in DOMAIN Bullish :
                  SignalsFor(Bullish[j], "BUY") # {} <=> ConfidenceExceeds(Bullish[j], T)
            /\ \A j \in DOMAIN Bearish :
                  SignalsFor(Bearish[j], "SELL") # {} <=> ConfidenceExceeds(Bearish[j], T)

(* C14: for the configured sentiment threshold S and price change threshold
   P, a pattern is in the bullish list iff avg_sentiment > S and
   price_change_percent > P, and in the bearish list iff avg_sentiment < -S
   and price_change_percent < -P. *)
C14_ConfiguredClassification ==
    LET S == pattern_config.sentiment_threshold
        P == pattern_config.price_change_threshold
        bull(x) == /\ x.avg_sentiment.num > S * x.avg_sentiment.den
                   /\ x.price_change_percent.num > P * x.price_change_percent.den
        bear(x) == /\ x.avg_sentiment.num < -S * x.avg_sentiment.den
                   /\ x.price_change_percent.num < -P * x.price_change_percent.den
    IN  /\ \A j \in DOMAIN Bullish : bull(Bullish[j])
        /\ \A j \in DOMAIN Bearish : bear(Bearish[j])
        /\ \A j \in DOMAIN Neutral : ~bull(Neutral[j]) /\ ~bear(Neutral[j])

-----------------------------------------------------------------------------
(* the pattern of lines 113-130 built from one list of pooled scores *)

MaxScores == 3

\* _calculate_confidence and np.mean take any list of numbers: the values
\* include scores beyond [-1, 1]
ScoreValues == {-30, -10, -3, 0, 5, 10, 30}

ScoreLists == UNION {[1..n -> ScoreValues] : n \in 1..MaxScores}

InitPattern ==
    /\ args \in [scores : ScoreLists]
    /\ sentiment_analysis = <<>>
    /\ stock_prices = <<>>
    /\ pattern_config = DefaultConfig
    /\ pc = "call"
    /\ patterns = None
    /\ Fresh

make_pattern ==
    /\ pc = "call"
    /\ DOMAIN args = {"scores"}
    /\ result' = Some(MakePattern(1, 2, args.scores, 100, 110))
    /\ pc' = "returned"
    /\ UNCHANGED <<sentiment_analysis, stock_prices, pattern_config, window_days,
                   price_df, sentiment_by_date, sentiment_dates, i, patterns, signals,
                   log, args, evaluated>>

SpecPattern == InitPattern /\ [][make_pattern]_vars

PatternReturned == pc = "returned" /\ DOMAIN args = {"scores"}

\* the sum over the scores x of (n * x - total)^2: n^3 times the population
\* variance, the mean of the squared deviations from the mean
RECURSIVE SquaredDeviations(_, _, _)
SquaredDeviations(scores, n, total) ==
    IF scores = <<>> THEN 0
    ELSE (n * Head(scores) - total) * (n * Head(scores) - total)
            + SquaredDeviations(Tail(scores), n, total)

(* C15: for every non-empty list of pooled scores the pattern's confidence
   lies in [0, 1] and is max(0, 1 - stddev/2) for the population standard
   deviation of the scores: in the variance form, (2 * (1 - confidence))^2
   lies in [0, 4] and is the lesser of 4 and the mean squared deviation from
   the mean. *)
C15_ConfidenceFormula ==
    PatternReturned =>
        LET c == result[1].confidence
            n == Len(args.scores)
            dev == SquaredDeviations(args.scores, n, SumSeq(args.scores))
        IN  /\ c.den > 0
            /\ 0 <= c.num
            /\ c.num <= 400 * c.den
            /\ IF dev >= 400 * n * n * n
               THEN c = [num |-> 400, den |-> 1]
               ELSE c.num * n * n * n = dev * c.den

\* three scores, not all equal, with a standard deviation below 2
C15_Witness ==
    /\ PatternReturned
    /\ Len(args.scores) = 3
    /\ result[1].confidence.num > 0
    /\ result[1].confidence.num < 400 * result[1].confidence.den

-----------------------------------------------------------------------------
(* Patterns against the stored scores of their windows *)

\* the scores stored on the dates a pattern's window pools, in store order:
\* the window_days dates from window_start on
WindowScores(pattern) ==
    LET k == CHOOSE k \in DOMAIN StoreDates : StoreDates[k] = pattern.window_start
        last == Min(k + pattern_config.window_days - 1, Len(StoreDates))
        dates == {StoreDates[j] : j \in k..last}
        in_window(r) == DateOf(r.analyzed_at) \in dates
        recs == SelectSeq(sentiment_analysis, in_window)
    IN  [m \in 1..Len(recs) |-> recs[m].sentiments[Symbol]]

AllEqual(scores) == \A a \in DOMAIN scores : \A b \in DOMAIN scores : scores[a] = scores[b]

(* C16: a pattern whose window's stored scores are all equal (a single score
   included) has confidence exactly 1, and when it is bullish or bearish the
   finished run has its BUY or SELL signal. *)
C16_EqualScoresFullConfidence ==
    /\ \A j \in DOMAIN AllPatterns :
          AllEqual(WindowScores(AllPatterns[j])) =>
              AllPatterns[j].confidence = [num |-> 0, den |-> 1]
    /\ pc = "done" =>
          /\ \A j \in DOMAIN Bullish :
                AllEqual(WindowScores(Bullish[j])) => SignalsFor(Bullish[j], "BUY") # {}
          /\ \A j \in DOMAIN Bearish :
                AllEqual(WindowScores(Bearish[j])) => SignalsFor(Bearish[j], "SELL") # {}

\* a finished run with a bullish pattern of one score and a bearish pattern of
\* one score, each with its signal
C16_Witness ==
    /\ pc = "done"
    /\ \E j \in DOMAIN Bullish :
          /\ Bullish[j].mention_count = 1
          /\ SignalsFor(Bullish[j], "BUY") # {}
    /\ \E j \in DOMAIN Bearish :
          /\ AllEqual(WindowScores(Bearish[j]))
          /\ SignalsFor(Bearish[j], "SELL") # {}

(* C17: for every emitted pattern, mention_count is the number of scores
   stored on the window's dates and avg_sentiment is their arithmetic mean:
   avg_sentiment * mention_count is the sum of those scores. *)
C17_MeanOfPooledScores ==
    \A j \in DOMAIN AllPatterns :
        LET x == AllPatterns[j]
            scores == WindowScores(x)
        IN  /\ x.mention_count = Len(scores)
            /\ x.avg_sentiment.den > 0
            /\ x.avg_sentiment.num * x.mention_count = SumSeq(scores) * x.avg_sentiment.den

\* a pattern pooling three scores over two dates whose mean is not a score
C17_Witness ==
    \E j \in DOMAIN AllPatterns :
        /\ AllPatterns[j].mention_count = 3
        /\ AllPatterns[j].avg_sentiment.den = 3
        /\ pattern_config.window_days = 2

-----------------------------------------------------------------------------
StrictlyIncreasingStarts(pattern_list) ==
    \A a \in DOMAIN pattern_list : \A b \in DOMAIN pattern_list :
        a < b => pattern_list[a].window_start < pattern_list[b].window_start

(* C18: within each of the bullish, bearish and neutral lists the
   window_start values are strictly increasing, and no window_start belongs
   to more than one pattern of the three lists together. *)
C18_AscendingWindowStarts ==
    /\ StrictlyIncreasingStarts(Bullish)
    /\ StrictlyIncreasingStarts(Bearish)
    /\ StrictlyIncreasingStarts(Neutral)
    /\ \A a \in DOMAIN AllPatterns : \A b \in DOMAIN AllPatterns :
          a # b => AllPatterns[a].window_start # AllPatterns[b].window_start

\* a finished run with two patterns in one list
C18_Witness ==
    /\ DetectorReturned
    /\ \/ Len(Bullish) >= 2
       \/ Len(Bearish) >= 2
       \/ Len(Neutral) >= 2

-----------------------------------------------------------------------------
(* generate_trading_signals called twice on the same stores *)

RepeatConfigs == {c \in Configs : c.min_mentions = c.window_days}

InitRepeat ==
    /\ sentiment_analysis \in SentimentStores
    /\ stock_prices \in PriceStores
    /\ pattern_config \in RepeatConfigs
    /\ pc = "idle"
    /\ patterns = None
    /\ args = None
    /\ Fresh

\* the first call has returned: its patterns and signals are kept in result
\* and a second call starts with fresh locals
call_again ==
    /\ pc = "done"
    /\ result = None
    /\ result' = Some([patterns |-> patterns, signals |-> signals])
    /\ pc' = "idle"
    /\ patterns' = None
    /\ window_days' = 0
    /\ price_df' = <<>>
    /\ sentiment_by_date' = <<>>
    /\ sentiment_dates' = <<>>
    /\ i' = 0
    /\ signals' = <<>>
    /\ log' = <<>>
    /\ evaluated' = <<>>
    /\ UNCHANGED <<sentiment_analysis, stock_prices, pattern_config, args>>

NextRepeat ==
    \/ Next
    \/ call_again

SpecRepeat == InitRepeat /\ [][NextRepeat]_vars

SecondCallReturned ==
    pc = "done" /\ result # None /\ DOMAIN result[1] = {"patterns", "signals"}

(* C19: a second call of the signal generator on the same, unmodified
   sentiment and price stores with the same configuration returns bullish,
   bearish and neutral pattern lists and a signal list identical to those of
   the first call. *)
C19_SecondCallIdentical ==
    SecondCallReturned =>
        /\ (patterns = None) <=> (result[1].patterns = None)
        /\ patterns # None =>
              /\ patterns[1].bullish_patterns = result[1].patterns[1].bullish_patterns
              /\ patterns[1].bearish_patterns = result[1].patterns[1].bearish_patterns
              /\ patterns[1].neutral_patterns = result[1].patterns[1].neutral_patterns
        /\ signals = result[1].signals

\* the second call has returned a signal and a neutral pattern as well
C19_Witness ==
    /\ SecondCallReturned
    /\ signals # <<>>
    /\ Neutral # <<>>

-----------------------------------------------------------------------------
(* _group_sentiment_by_date called on records of several symbols *)

MaxRecords == 2

RequestedSymbols == {<<"G", "M">>, <<"g", "m">>}

\* tickers are stored in capitals (extract_stock_symbols); a record written
\* by another producer may carry small letters
RecordSymbols == {<<"G", "M">>, <<"G", "M", "E">>, <<"g", "m">>, <<"M", "E">>}

\* the sentiments of a record are those of its whole post, one per symbol
\* the post mentions
PostSentiments ==
    {(<<"G", "M">> :> 10),
     (<<"G", "M", "E">> :> -10),
     (<<"G", "M">> :> 10) @@ (<<"G", "M", "E">> :> -10)}

GroupRecords ==
    [stock_symbol : RecordSymbols, analyzed_at : {2, 4}, sentiments : PostSentiments]

InitGroup ==
    /\ args \in [sentiments : UNION {[1..n -> GroupRecords] : n \in 0..MaxRecords},
                 symbol : RequestedSymbols]
    /\ sentiment_analysis = <<>>
    /\ stock_prices = <<>>
    /\ pattern_config = DefaultConfig
    /\ pc = "call"
    /\ patterns = None
    /\ Fresh

call_group_sentiment_by_date ==
    /\ pc = "call"
    /\ DOMAIN args = {"sentiments", "symbol"}
    /\ result' = Some(_group_sentiment_by_date(args.sentiments, args.symbol))
    /\ pc' = "returned"
    /\ UNCHANGED <<sentiment_analysis, stock_prices, pattern_config, window_days,
                   price_df, sentiment_by_date, sentiment_dates, i, patterns, signals,
                   log, args, evaluated>>

SpecGroup == InitGroup /\ [][call_group_sentiment_by_date]_vars

\* the records of the requested symbol, letter case ignored, that carry a
\* score for it
SameSymbolRecords ==
    LET same(r) == /\ upper(r.stock_symbol) = upper(args.symbol)
                   /\ upper(args.symbol) \in DOMAIN r.sentiments
    IN  SelectSeq(args.sentiments, same)

(* C20: the grouping for a requested symbol holds, date by date, exactly the
   scores of the records whose symbol equals the requested symbol ignoring
   letter case: a record of another symbol contributes to no date, a record
   of the same symbol in another letter case is included. *)
C20_CaseInsensitiveSymbolMatch ==
    (pc = "returned" /\ DOMAIN args = {"sentiments", "symbol"}) =>
        LET recs == SameSymbolRecords
            grouped == result[1]
        IN  /\ DOMAIN grouped = {DateOf(recs[k].analyzed_at) : k \in DOMAIN recs}
            /\ \A d \in DOMAIN grouped :
                  LET on_d(r) == DateOf(r.analyzed_at) = d
                      day == SelectSeq(recs, on_d)
                  IN  grouped[d] = [k \in 1..Len(day) |-> day[k].sentiments[upper(args.symbol)]]

-----------------------------------------------------------------------------
(* a detector run with ConfigLoader.update_value running in another thread *)

UpdatedThresholds == {5, 15}

\* get_section returns the section dict of the one ConfigLoader itself, not a
\* copy: self.pattern_config is the dict update_value writes into
SharedConfigs ==
    [window_days : {1},
     min_mentions : MinMentionsValues,
     price_change_threshold : UpdatedThresholds]

InitShared ==
    /\ sentiment_analysis \in SentimentStores
    /\ stock_prices \in PriceStores
    /\ pattern_config \in SharedConfigs
    /\ pc = "idle"
    /\ patterns = None
    /\ args = None
    /\ Fresh

\* config.update_value('pattern_analysis.min_mentions', v) or
\* config.update_value('pattern_analysis.price_change_threshold', v), between
\* two iterations of the window loop
update_value ==
    /\ pc = "windows"
    /\ \/ \E v \in MinMentionsValues :
             pattern_config' = [pattern_config EXCEPT !.min_mentions = v]
       \/ \E v \in UpdatedThresholds :
             pattern_config' = [pattern_config EXCEPT !.price_change_threshold = v]
    /\ UNCHANGED <<sentiment_analysis, stock_prices, pc, window_days, price_df,
                   sentiment_by_date, sentiment_dates, i, patterns, signals, log,
                   args, result, evaluated>>

NextShared ==
    \/ Next
    \/ update_value

SpecShared == InitShared /\ [][NextShared]_vars

\* the patterns made so far are those of a run under the fixed values
\* min_mentions = m, price_change_threshold = t: a window has a pattern iff it
\* has m mentions and usable prices, and each pattern is in the list t gives
AsUnderFixed(m, t) ==
    /\ \A k \in DOMAIN evaluated :
          LET e == evaluated[k]
              made == \E j \in DOMAIN AllPatterns :
                          AllPatterns[j].window_start = e.window_start
          IN  made <=>
                /\ e.mention_count >= m
                /\ Truthy(_get_price_at_date(price_df, e.window_start))
                /\ Truthy(_get_price_at_date(price_df, e.window_end))
    /\ \A j \in DOMAIN Bullish :
          /\ FracGT(Bullish[j].avg_sentiment, SentimentThreshold)
          /\ FracGT(Bullish[j].price_change_percent, t)
    /\ \A j \in DOMAIN Bearish :
          /\ FracLT(Bearish[j].avg_sentiment, -SentimentThreshold)
          /\ FracLT(Bearish[j].price_change_percent, -t)
    /\ \A j \in DOMAIN Neutral :
          /\ ~(/\ FracGT(Neutral[j].avg_sentiment, SentimentThreshold)
               /\ FracGT(Neutral[j].price_change_percent, t))
          /\ ~(/\ FracLT(Neutral[j].avg_sentiment, -SentimentThreshold)
               /\ FracLT(Neutral[j].price_change_percent, -t))

(* C21: every window of one run is evaluated against the same min_mentions
   and the same price_change_threshold: the run's patterns are those of a
   run under one fixed configuration, also when update_value changes the
   configuration while the run is in progress. *)
C21_OneConfigurationPerRun ==
    \E m \in MinMentionsValues : \E t \in UpdatedThresholds : AsUnderFixed(m, t)

-----------------------------------------------------------------------------
(* generate_trading_signals over longer series: a price row on every day *)

SeriesDays == 1..(MaxDay + 1)

SeriesScores == {<<>>, <<10>>, <<-10, -3>>}

SeriesCloses == {0, 100, 110}

SeriesSentiments ==
    {Concat([d \in SeriesDays |->
                [k \in 1..Len(by_day[d]) |-> SentimentRecord(2 * d, by_day[d][k])]])
        : by_day \in [SeriesDays -> SeriesScores]}

SeriesPrices ==
    {[d \in SeriesDays |-> PriceRecord(d, by_day[d])] : by_day \in [SeriesDays -> SeriesCloses]}

InitSeries ==
    /\ sentiment_analysis \in SeriesSentiments
    /\ stock_prices \in SeriesPrices
    /\ pattern_config \in RepeatConfigs
    /\ pc = "idle"
    /\ patterns = None
    /\ args = None
    /\ Fresh

SpecSeries == InitSeries /\ [][Next]_vars

\* the same series on days that all traded at a usable close
PoolingCloses == {100, 110}

PoolingPrices ==
    {[d \in SeriesDays |-> PriceRecord(d, by_day[d])] : by_day \in [SeriesDays -> PoolingCloses]}

InitPooling ==
    /\ sentiment_analysis \in SeriesSentiments
    /\ stock_prices \in PoolingPrices
    /\ pattern_config \in RepeatConfigs
    /\ pc = "idle"
    /\ patterns = None
    /\ args = None
    /\ Fresh

SpecPooling == InitPooling /\ [][Next]_vars

\* the pattern the window starting at date window_start has by the stored
\* records alone, whatever happened to the other windows of the run
PatternByItself(x) ==
    LET scores == WindowScores(x)
        price_at_start == _get_price_at_date(price_df, x.window_start)
        price_at_end == _get_price_at_date(price_df, x.window_end)
    IN  /\ x.mention_count = Len(scores)
        /\ x.avg_sentiment = Frac(SumSeq(scores), Len(scores))
        /\ x.confidence = _calculate_confidence(scores)
        /\ price_at_start # None /\ price_at_end # None
        /\ x.price_change_percent =
              Frac((price_at_end[1] - price_at_start[1]) * 100, price_at_start[1])

SkippedForPrice == {k \in DOMAIN evaluated : evaluated[k].outcome = "no_price"}

(* C22: in a run that skipped a window for its price, every other evaluated
   window with enough mentions and usable prices still has its pattern, each
   pattern is the one its own window's records give, and the finished run
   returns a result without an error. *)
C22_SkipLeavesOthersUnaffected ==
    SkippedForPrice # {} =>
        /\ \A k \in DOMAIN evaluated :
              LET e == evaluated[k]
              IN  (/\ e.mention_count >= pattern_config.min_mentions
                   /\ Truthy(_get_price_at_date(price_df, e.window_start))
                   /\ Truthy(_get_price_at_date(price_df, e.window_end)))
                  => \E j \in DOMAIN AllPatterns :
                        AllPatterns[j].window_start = e.window_start
        /\ \A j \in DOMAIN AllPatterns : PatternByItself(AllPatterns[j])
        /\ DetectorReturned => patterns # None /\ NoErrorLogged

\* a finished run whose first window was skipped for its price and whose
\* two later windows made patterns
C22_Witness ==
    /\ DetectorReturned
    /\ 1 \in SkippedForPrice
    /\ Len(AllPatterns) = 2
    /\ \A j \in DOMAIN AllPatterns :
          AllPatterns[j].window_start > evaluated[1].window_start

-----------------------------------------------------------------------------
\* the scores stored on the date d, in store order
ScoresOn(d) ==
    LET on_d(r) == DateOf(r.analyzed_at) = d
        recs == SelectSeq(sentiment_analysis, on_d)
    IN  [m \in 1..Len(recs) |-> recs[m].sentiments[Symbol]]

\* position of the date d in the ascending distinct dates D (from 1)
DateIndex(d) == CHOOSE k \in DOMAIN StoreDates : StoreDates[k] = d

\* the scores stored on D[k] .. D[k + w - 1] (k from 1), date by date
RECURSIVE ScoresFrom(_, _)
ScoresFrom(k, w) ==
    IF w <= 0 \/ k > Len(StoreDates) THEN <<>>
    ELSE ScoresOn(StoreDates[k]) \o ScoresFrom(k + 1, w - 1)

(* C23: the scores pooled for the window starting at D[i] are exactly those
   stored on D[i] .. D[i+W-1]: mention_count, avg_sentiment and confidence of
   its pattern are those of these scores, and the scores stored on the end
   date D[i+W], which the end price is looked up at, are not among them. *)
C23_EndMarkerNotPooled ==
    LET W == pattern_config.window_days
    IN  /\ \A k \in DOMAIN evaluated :
              evaluated[k].mention_count = Len(ScoresFrom(k, W))
        /\ \A j \in DOMAIN AllPatterns :
              LET x == AllPatterns[j]
                  k == DateIndex(x.window_start)
                  pooled == ScoresFrom(k, W)
                  price_at_end == _get_price_at_date(price_df, x.window_end)
              IN  /\ x.window_end = StoreDates[k + W]
                  /\ x.mention_count = Len(pooled)
                  /\ x.mention_count + Len(ScoresOn(x.window_end)) = Len(ScoresFrom(k, W + 1))
                  /\ x.avg_sentiment = Frac(SumSeq(pooled), Len(pooled))
                  /\ x.confidence = _calculate_confidence(pooled)
                  /\ price_at_end # None
                  /\ x.price_change_percent.den # 0
                  /\ \E price_at_start \in {100, 110} :
                        x.price_change_percent =
                            Frac((price_at_end[1] - price_at_start) * 100, price_at_start)

\* a two-date window pooling <<10>> and <<10>> whose end date stores -10 and
\* -3: the pattern has two mentions, mean 1.0 and confidence 1
C23_Witness ==
    /\ pattern_config.window_days = 2
    /\ \E j \in DOMAIN AllPatterns :
          LET x == AllPatterns[j]
          IN  /\ ScoresOn(x.window_end) = <<-10, -3>>
              /\ x.mention_count = 2
              /\ x.avg_sentiment = [num |-> 10, den |-> 1]
              /\ x.confidence = [num |-> 0, den |-> 1]

-----------------------------------------------------------------------------
\* the pattern of the window starting at date d, if the run has one
PatternAt(d) ==
    LET found == {j \in DOMAIN AllPatterns : AllPatterns[j].window_start = d}
    IN  IF found = {} THEN None ELSE Some(AllPatterns[CHOOSE j \in found : TRUE])

\* avg_sentiment * mention_count of a pattern: the sum of its pooled scores
PatternSum(x) == (x.avg_sentiment.num * x.mention_count) \div x.avg_sentiment.den

(* C24: the windows of adjacent start indices i and i+1 start one sentiment
   date apart, and what window i+1 pools is what window i pools without the
   scores of D[i] and with those of D[i+W]: its mention count, and the sum of
   scores behind its pattern, are window i's less the leading date's plus
   the trailing date's, nothing else being kept from window i. *)
C24_SlideByOneDate ==
    LET W == pattern_config.window_days
        D == StoreDates
    IN  \A k \in DOMAIN evaluated :
            (k + 1) \in DOMAIN evaluated =>
                LET a == evaluated[k]
                    b == evaluated[k + 1]
                    xa == PatternAt(a.window_start)
                    xb == PatternAt(b.window_start)
                IN  /\ a.window_start = D[k] /\ a.window_end = D[k + W]
                    /\ b.window_start = D[k + 1] /\ b.window_end = D[k + 1 + W]
                    /\ b.mention_count =
                          a.mention_count - Len(ScoresOn(D[k])) + Len(ScoresOn(D[k + W]))
                    /\ b.mention_count = Len(ScoresFrom(k + 1, W))
                    /\ (xa # None /\ xb # None) =>
                          /\ xb[1].mention_count = b.mention_count
                          /\ PatternSum(xb[1]) =
                                PatternSum(xa[1]) - SumSeq(ScoresOn(D[k]))
                                    + SumSeq(ScoresOn(D[k + W]))

\* two adjacent two-date windows with a pattern each, the first pooling
\* three scores and the second two: the leading date stored two scores, the
\* trailing date one
C24_Witness ==
    /\ pattern_config.window_days = 2
    /\ Len(evaluated) >= 2
    /\ PatternAt(evaluated[1].window_start) # None
    /\ PatternAt(evaluated[2].window_start) # None
    /\ evaluated[1].mention_count = 3
    /\ evaluated[2].mention_count = 2
    /\ Len(ScoresOn(evaluated[1].window_start)) = 2

-----------------------------------------------------------------------------
\* the close the lookup resolves for the date d is 0
ResolvesToZero(d) == _get_price_at_date(price_df, d) = Some(0)

(* C25: the price change is computed only for a non-zero start price: every
   pattern's window resolved a non-zero start close and a non-zero end close,
   its price_change_percent is a proper quotient by the start close, a window
   whose start or end close resolves to 0 has no pattern, and no error is
   logged. *)
C25_NoDivisionByZero ==
    /\ \A k \in DOMAIN evaluated :
          LET e == evaluated[k]
          IN  /\ e.outcome = "pattern" =>
                    /\ e.price_at_start \notin {None, Some(0)}
                    /\ e.price_at_end \notin {None, Some(0)}
                    /\ e.price_at_start = _get_price_at_date(price_df, e.window_start)
                    /\ e.price_at_end = _get_price_at_date(price_df, e.window_end)
              /\ (ResolvesToZero(e.window_start) \/ ResolvesToZero(e.window_end)) =>
                    /\ e.outcome # "pattern"
                    /\ PatternAt(e.window_start) = None
    /\ \A j \in DOMAIN AllPatterns :
          LET x == AllPatterns[j]
              price_at_start == _get_price_at_date(price_df, x.window_start)
              price_at_end == _get_price_at_date(price_df, x.window_end)
          IN  /\ x.price_change_percent.den > 0
              /\ price_at_start # None /\ price_at_start[1] # 0
              /\ x.price_change_percent.num * price_at_start[1]
                    = (price_at_end[1] - price_at_start[1]) * 100 * x.price_change_percent.den
    /\ NoErrorLogged

\* a finished run with a window skipped for a start close of 0, a window
\* skipped for an end close of 0 after a non-zero start close, and a pattern
C25_Witness ==
    /\ DetectorReturned
    /\ AllPatterns # <<>>
    /\ \E k \in DOMAIN evaluated :
          /\ evaluated[k].outcome = "no_price"
          /\ evaluated[k].price_at_start = Some(0)
    /\ \E k \in DOMAIN evaluated :
          /\ evaluated[k].outcome = "no_price"
          /\ evaluated[k].price_at_start = Some(110)
          /\ evaluated[k].price_at_end = Some(0)

-----------------------------------------------------------------------------
\* the least distance in days between the requested date and a row
LeastDistance ==
    CHOOSE d \in 0..(MaxPriceDay + 1) :
        /\ \E k \in DOMAIN args.price_df : RowDistance(k) = d
        /\ \A k \in DOMAIN args.price_df : RowDistance(k) >= d

(* C26: the lookup reports 'not found' exactly for the empty price series:
   with at least one row it resolves for every requested date, however far
   the nearest row lies from it, to the close of a row at the least
   distance. *)
C26_NoMaximumDistance ==
    PriceCallReturned =>
        /\ (result[1] = None) <=> (args.price_df = <<>>)
        /\ args.price_df # <<>> =>
              \E k \in DOMAIN args.price_df :
                  /\ RowDistance(k) = LeastDistance
                  /\ result[1] = Some(args.price_df[k].close)

\* a lookup resolved from a single row at the far end of the range of days,
\* the largest distance there is
C26_Witness ==
    /\ PriceCallReturned
    /\ Len(args.price_df) = 1
    /\ RowDistance(1) = MaxPriceDay
    /\ result[1] = Some(args.price_df[1].close)

-----------------------------------------------------------------------------
\* every score of the list lies in [-1, 1]
ScoresClamped(scores) == \A k \in DOMAIN scores : -10 <= scores[k] /\ scores[k] <= 10

(* C27: for pooled scores that all lie in [-1, 1] the population standard
   deviation is at most 1 and the pattern's confidence at least 0.5: in the
   variance form the mean squared deviation from the mean is at most 1,
   (2 * (1 - confidence))^2 is at most 1, and the cap at 4 (the floor of the
   confidence at 0) is not what gave the value. *)
C27_ClampedScoresHalfConfidence ==
    (PatternReturned /\ ScoresClamped(args.scores)) =>
        LET c == result[1].confidence
            n == Len(args.scores)
            dev == SquaredDeviations(args.scores, n, SumSeq(args.scores))
        IN  /\ dev <= 100 * n * n * n
            /\ c.num <= 100 * c.den
            /\ c.num * n * n * n = dev * c.den

\* the scores 1.0 and -1.0: standard deviation exactly 1, confidence exactly 0.5
C27_Witness ==
    /\ PatternReturned
    /\ ScoresClamped(args.scores)
    /\ 10 \in Range(args.scores) /\ -10 \in Range(args.scores)
    /\ Len(args.scores) = 2
    /\ result[1].confidence = [num |-> 100, den |-> 1]

-----------------------------------------------------------------------------
(* C28: in the returned signal list every BUY signal stands before every
   SELL signal, and the signals of one type stand in the order of their
   patterns, by ascending window: the BUY signals are those of the
   qualifying bullish patterns in list order, the SELL signals those of the
   qualifying bearish patterns in list order. *)
C28_BuyBeforeSell ==
    pc = "done" =>
        /\ \A a \in DOMAIN signals : \A b \in DOMAIN signals :
              a < b =>
                  /\ ~(signals[a].signal_type = "SELL" /\ signals[b].signal_type = "BUY")
                  /\ signals[a].signal_type = signals[b].signal_type =>
                        signals[a].pattern_date < signals[b].pattern_date
        /\ LET is_buy(x) == x.signal_type = "BUY"
               is_sell(x) == x.signal_type = "SELL"
               buys == SelectSeq(signals, is_buy)
               sells == SelectSeq(signals, is_sell)
               bullish_qualifying == SelectSeq(Bullish, Qualifies)
               bearish_qualifying == SelectSeq(Bearish, Qualifies)
           IN  /\ signals = buys \o sells
               /\ Len(buys) = Len(bullish_qualifying)
               /\ \A k \in DOMAIN buys : buys[k].pattern_date = bullish_qualifying[k].window_end
               /\ Len(sells) = Len(bearish_qualifying)
               /\ \A k \in DOMAIN sells : sells[k].pattern_date = bearish_qualifying[k].window_end

\* a bearish window before a bullish one, both with signals: the BUY signal
\* stands first although its pattern date is the later one
C28_Witness ==
    /\ pc = "done"
    /\ \E a \in DOMAIN signals : \E b \in DOMAIN signals :
          /\ a < b
          /\ signals[a].signal_type = "BUY"
          /\ signals[b].signal_type = "SELL"
          /\ signals[b].pattern_date < signals[a].pattern_date

-----------------------------------------------------------------------------
(* RedditTradingBot.analyze_patterns for one symbol (main.py 241-265): the
   patterns are found and saved, then generate_trading_signals finds them
   again from the store, which other writers insert into meanwhile *)

SavedConfigs == {c \in Configs : c.window_days = 1 /\ c.min_mentions = 1}

InitSaved ==
    /\ sentiment_analysis \in SentimentStores
    /\ stock_prices \in PriceStores
    /\ pattern_config \in SavedConfigs
    /\ pc = "idle"
    /\ patterns = None
    /\ args = None
    /\ Fresh

\* main.py 245-249: find_tradeable_patterns has returned its patterns (the
\* return of pattern_analyzer.py lines 139-142) and they are saved; the saved
\* analysis is kept in result, and the call of line 258 starts with fresh
\* locals
save_pattern_analysis ==
    /\ pc = "windows"
    /\ i >= RangeStop(sentiment_dates, window_days)
    /\ result = None
    /\ LET returned == [patterns[1] EXCEPT
                          !.summary = _calculate_summary_stats(patterns[1])]
       IN  result' = Some([saved |-> returned])
    /\ pc' = "idle"
    /\ patterns' = None
    /\ window_days' = 0
    /\ price_df' = <<>>
    /\ sentiment_by_date' = <<>>
    /\ sentiment_dates' = <<>>
    /\ i' = 0
    /\ signals' = <<>>
    /\ log' = <<>>
    /\ evaluated' = <<>>
    /\ UNCHANGED <<sentiment_analysis, stock_prices, pattern_config, args>>

\* the patterns were saved and generate_trading_signals has not read the
\* store yet
BetweenSaveAndSignals == pc = "idle" /\ result # None

\* another writer's insert_sentiment, stamped with the clock: later than
\* every stored record, on the last stored day or on a new one
insert_sentiment ==
    /\ BetweenSaveAndSignals
    /\ \A k \in DOMAIN sentiment_analysis : sentiment_analysis[k].analyzed_at <= 2 * MaxDay
    /\ \E t \in {2 * MaxDay + 1, 2 * (MaxDay + 1)} : \E score \in {10, -10} :
          sentiment_analysis' = Append(sentiment_analysis, SentimentRecord(t, score))
    /\ UNCHANGED <<stock_prices, pattern_config, pc, window_days, price_df,
                   sentiment_by_date, sentiment_dates, i, patterns, signals, log, args,
                   result, evaluated>>

\* another writer's insert_stock_price: the row of a new trading day
insert_stock_price ==
    /\ BetweenSaveAndSignals
    /\ \A k \in DOMAIN stock_prices : stock_prices[k].date <= 2 * MaxDay
    /\ \E close \in {100, 110} :
          stock_prices' = Append(stock_prices, PriceRecord(MaxDay + 1, close))
    /\ UNCHANGED <<sentiment_analysis, pattern_config, pc, window_days, price_df,
                   sentiment_by_date, sentiment_dates, i, patterns, signals, log, args,
                   result, evaluated>>

NextSaved ==
    \/ find_tradeable_patterns
    \/ analyze_window
    \/ save_pattern_analysis
    \/ insert_sentiment
    \/ insert_stock_price
    \/ (result # None /\ generate_trading_signals)

SpecSaved == InitSaved /\ [][NextSaved]_vars

\* signals were generated after an analysis was saved
SignalsAfterSave ==
    pc = "done" /\ result # None /\ DOMAIN result[1] = {"saved"}

(* C29: the signals generated after the patterns were saved come from the
   saved patterns: every BUY signal matches a bullish pattern of the saved
   analysis, and every SELL signal a bearish one, in window_end,
   price_change_percent and confidence, whatever was inserted into the store
   between the saving and the signal generation. *)
C29_SignalsFromSavedPatterns ==
    SignalsAfterSave =>
        \A k \in DOMAIN signals :
            LET saved == result[1].saved
                source == IF signals[k].signal_type = "BUY"
                          THEN saved.bullish_patterns ELSE saved.bearish_patterns
            IN  \E j \in DOMAIN source :
                    /\ source[j].window_end = signals[k].pattern_date
                    /\ source[j].price_change_percent = signals[k].expected_return
                    /\ source[j].confidence = signals[k].confidence

-----------------------------------------------------------------------------
(* StockDataFetcher.fetch_stock_data (stock_data_fetcher.py 50-94): the retry
   loop around ticker.history. args holds max_retries and what each call of
   ticker.history would give, i is the loop variable attempt, log the calls
   made and the waits taken, result the returned value once pc = "returned" *)

MaxRetries == 3

\* what one pass through the try body meets: a non-empty frame, an empty (or
\* None) frame, or an exception
FetchOutcomes == {"data", "empty", "error"}

RECURSIVE Pow2(_)
Pow2(n) == IF n <= 0 THEN 1 ELSE 2 * Pow2(n - 1)

\* a retry test that is also true of the last attempt
ShouldRetryLast(attempt, max_retries) == attempt < max_retries

\* lines 66 and 86: `if attempt < max_retries - 1`
ShouldRetry(attempt, max_retries) == attempt < max_retries - 1

FetchEvent(attempt) == [event |-> "fetch", attempt |-> attempt]

SleepEvent(wait_time) == [event |-> "sleep", wait_time |-> wait_time]

InitFetch ==
    /\ args \in [max_retries : 0..MaxRetries, outcomes : [0..(MaxRetries - 1) -> FetchOutcomes]]
    /\ sentiment_analysis = <<>>
    /\ stock_prices = <<>>
    /\ pattern_config = DefaultConfig
    /\ pc = "loop"
    /\ patterns = None
    /\ Fresh

\* one iteration of `for attempt in range(max_retries)`, lines 50-92
fetch_attempt ==
    /\ pc = "loop"
    /\ DOMAIN args = {"max_retries", "outcomes"}
    /\ i < args.max_retries
    /\ LET attempt == i
           df == args.outcomes[attempt]
           fetched == Append(log, FetchEvent(attempt))
       IN  IF df = "data"
           THEN \* line 78: return df
                /\ result' = Some(Some([attempt |-> attempt]))
                /\ log' = fetched
                /\ pc' = "returned"
                /\ i' = i
           ELSE IF ShouldRetry(attempt, args.max_retries)
           THEN \* lines 66-70 and 86-89: back off and go round again
                /\ log' = Append(fetched, SleepEvent(Pow2(attempt)))
                /\ i' = i + 1
                /\ UNCHANGED <<pc, result>>
           ELSE \* lines 71 and 92: return None
                /\ result' = Some(None)
                /\ log' = fetched
                /\ pc' = "returned"
                /\ i' = i
    /\ UNCHANGED <<sentiment_analysis, stock_prices, pattern_config, window_days,
                   price_df, sentiment_by_date, sentiment_dates, patterns, signals,
                   args, evaluated>>

\* line 94: the loop ended without a return
fetch_loop_exhausted ==
    /\ pc = "loop"
    /\ DOMAIN args = {"max_retries", "outcomes"}
    /\ i >= args.max_retries
    /\ result' = Some(None)
    /\ pc' = "returned"
    /\ UNCHANGED <<sentiment_analysis, stock_prices, pattern_config, window_days,
                   price_df, sentiment_by_date, sentiment_dates, i, patterns, signals,
                   log, args, evaluated>>

NextFetch ==
    \/ fetch_attempt
    \/ fetch_loop_exhausted

SpecFetch == InitFetch /\ [][NextFetch]_vars

\* the attempts made so far
FetchesMade == {k \in DOMAIN log : log[k].event = "fetch"}

\* the attempts, from 0, that would yield a non-empty frame
DataAttempts == {k \in 0..(args.max_retries - 1) : args.outcomes[k] = "data"}

(* C30: fetch_stock_data returns after at most max_retries attempts: while
   it runs a step is always possible and each step makes the next attempt or
   returns; it returns the data of the first attempt that yields a non-empty
   frame and makes no attempt after it, and returns None after max_retries
   attempts when none does; it waits 2^attempt seconds after each attempt that
   is followed by another one, and never after the last. *)
C30_BoundedRetries ==
    LET n == Cardinality(FetchesMade)
        max_retries == args.max_retries
    IN  /\ n <= max_retries
        /\ \A k \in DOMAIN log :
              IF k % 2 = 1
              THEN log[k] = FetchEvent((k - 1) \div 2)
              ELSE log[k] = SleepEvent(Pow2((k - 2) \div 2))
        /\ pc = "loop" =>
              /\ ENABLED NextFetch
              /\ i = n
              /\ Len(log) = 2 * n
              /\ \A k \in 0..(n - 1) : k \notin DataAttempts
        /\ pc = "returned" =>
              /\ Len(log) = IF n = 0 THEN 0 ELSE 2 * n - 1
              /\ IF DataAttempts # {}
                 THEN LET first == CHOOSE k \in DataAttempts :
                                      \A m \in DataAttempts : k <= m
                      IN  /\ result = Some(Some([attempt |-> first]))
                          /\ n = first + 1
                 ELSE /\ result = Some(None)
                      /\ n = max_retries

\* three attempts: an empty frame, an exception, then data, returned after
\* waits of 1 and 2 seconds
C30_Witness ==
    /\ pc = "returned"
    /\ DOMAIN args = {"max_retries", "outcomes"}
    /\ args.max_retries = 3
    /\ args.outcomes[0] = "empty" /\ args.outcomes[1] = "error"
    /\ result = Some(Some([attempt |-> 2]))
    /\ log = <<FetchEvent(0), SleepEvent(1), FetchEvent(1), SleepEvent(2), FetchEvent(2)>>

====
